---------------------------- MODULE Spec2Model ----------------------------
(***************************************************************************)
(* The enrollment service (src/api/app.py and src/app.py) and the          *)
(* embedding script (src/scripts/enroll_multi_avg.py).                     *)
(*                                                                         *)
(* POST /enroll is modelled as a sequence of steps of a worker thread, cut *)
(* at the points where the handler touches the world outside itself: the   *)
(* storage listing, mkdtemp, each download, the script run, the read-back  *)
(* of the output file and the rmtree of the finally clause.  The scratch   *)
(* file system is shared by all workers.  The two applications differ only *)
(* in the directory they stage into and the file they read back; variant   *)
(* says which one is deployed.                                             *)
(***************************************************************************)
EXTENDS Integers, Sequences, FiniteSets, TLC

\* Bounds of the model.
MaxRefs == 3          \* image references of one request, one worker
ConcRefs == 1         \* image references of one request, several workers
NumWorkers == 2       \* request threads of the hosting runtime

Workers == 1..NumWorkers
DirNames == 1..NumWorkers      \* names mkdtemp can draw

Variants == {"api", "root"}    \* src/api/app.py, src/app.py
PatientIds == {"patient_001", "patient_002"}
NoKey == "<absent>"            \* data.get("patient_id") is None

VARIABLES
    variant,        \* which application is deployed
    load,           \* "one": one request at a time; "many": concurrent requests
    pc,             \* pc[w]: where worker w is in enroll()
    data,           \* data[w]: the request body
    patient_id,     \* patient_id[w]
    storage_paths,  \* storage_paths[w]
    image_urls,     \* image_urls[w]
    idx,            \* idx[w]: next reference _stage_images attempts
    count,          \* count[w]: _stage_images' count
    temp_root,      \* temp_root[w]: 0, or the directory mkdtemp returned
    result,         \* result[w]: what the script run of this request did
    resp,           \* resp[w]: the response
    fx,             \* fx[w]: what this request has done so far (history)
    roots,          \* the scratch directories that exist
    files,          \* the staged files that exist
    outs            \* the output files that exist

local == <<pc, data, patient_id, storage_paths, image_urls, idx, count,
           temp_root, result, resp, fx>>
config == <<variant, load>>
disk == <<roots, files, outs>>
vars == <<variant, load, pc, data, patient_id, storage_paths,
          image_urls, idx, count, temp_root, result, resp, fx, roots,
          files, outs>>

---------------------------------------------------------------------------
\* Values

NoCaptured == [skipped |-> 0, err |-> "", saved |-> FALSE]
NoArtifact == [writer |-> 0, embs |-> {}]
NoResp == [status |-> 0, kind |-> "none", msg |-> "", out |-> NoCaptured,
           art |-> NoArtifact, filename |-> ""]
NoResult == [ran |-> FALSE, rc |-> 0, captured |-> NoCaptured,
             readOwners |-> {}, wrote |-> FALSE, art |-> NoArtifact]
NoFx == [listed |-> "no", prefix |-> "", found |-> 0, mkdir |-> FALSE,
         attempts |-> 0, ok |-> 0, faces |-> 0, partials |-> 0]
NoData == [kind |-> "none", pid |-> NoKey,
           sp |-> [null |-> TRUE, n |-> 0], urls |-> [null |-> TRUE, n |-> 0]]

\* jsonify(error=msg), status
JsonError(status, msg, out) ==
    [status |-> status, kind |-> "json_error", msg |-> msg, out |-> out,
     art |-> NoArtifact, filename |-> ""]

\* What is answered when an exception leaves enroll(): the framework's own
\* error page, not JSON.
Unhandled(status) ==
    [status |-> status, kind |-> "html", msg |-> "", out |-> NoCaptured,
     art |-> NoArtifact, filename |-> ""]

\* Response(npy_bytes, mimetype=..., headers=Content-Disposition)
Binary(art, pid) ==
    [status |-> 200, kind |-> "binary", msg |-> "", out |-> NoCaptured,
     art |-> art, filename |-> pid]

\* data.get(key) or []
OrEmpty(v, tag) == IF v.null THEN <<>> ELSE [i \in 1..v.n |-> <<tag, i>>]

\* not patient_id
PidMissingNoneOnly(pid) == pid = NoKey
PidMissing(pid) == pid \in {NoKey, ""}

\* not storage_paths and not image_urls
NoImagesSpOnly(sp, urls) == sp = <<>>
NoImages(sp, urls) == sp = <<>> /\ urls = <<>>

\* reference_faces/<dir> the service stages into
InDir(v, pid) == IF v = "api" THEN "patient_001" ELSE pid
\* reference_faces/<name>_m_arcface.npy the service reads back
OutRel(v, pid) == IF v = "api" THEN "patient_001" ELSE pid
\* IN_GLOB and OUT_NPY of the script
IN_GLOB == "patient_001"
OUT_NPY == "patient_001"


---------------------------------------------------------------------------
\* The file system of the scratch area

\* open(path, "wb"): a file of the same path is replaced
WriteFile(fs, f) ==
    {g \in fs : ~(g.root = f.root /\ g.dir = f.dir /\ g.name = f.name)} \cup {f}

WriteOut(os, o) ==
    {g \in os : ~(g.root = o.root /\ g.name = o.name)} \cup {o}

\* tempfile.mkdtemp: a directory that did not exist.  The names are
\* interchangeable, so the model draws the least one that is free.
MkdTempFixed(existing) == {1}
MkdTemp(existing) ==
    LET free == DirNames \ existing
    IN {d \in free : \A e \in free : d <= e}

\* shutil.rmtree(temp_root, ignore_errors=True)
RmTree(S, d) == {x \in S : x.root # d}

---------------------------------------------------------------------------
\* scripts/enroll_multi_avg.py, run with cwd = a scratch directory

\* What the process can meet outside its own logic: nothing ("ok"), a failure
\* before the loop ("no_start": the model cannot be loaded), an exception of
\* the detector on a file that is no complete image ("junk_raises"), a failure
\* after np.save ("late": the last print cannot be written).
ScriptEnvs ==
    IF load = "one" THEN {"ok", "no_start", "junk_raises", "late"} ELSE {"ok"}

\* if not embs
NoEmbsNever(embs) == FALSE
NoEmbs(embs) == embs = {}

\* np.mean(np.stack(embs)), re-normalized: determined by the faces averaged
Mean(w, embs) == [writer |-> w, embs |-> {<<f.owner, f.name>> : f \in embs}]

Failed(err, skipped, inputs, os) ==
    [res |-> [ran |-> TRUE, rc |-> 1,
              captured |-> [skipped |-> skipped, err |-> err, saved |-> FALSE],
              readOwners |-> {f.owner : f \in inputs}, wrote |-> FALSE,
              art |-> NoArtifact],
     outs |-> os]

Script(cwd, fs, os, w, env) ==
    LET inputs == {f \in fs : f.root = cwd /\ f.dir = IN_GLOB}
        junk == {f \in inputs : f.kind = "partial"}
        embs == {f \in inputs : f.kind = "face"}
        nskip == Cardinality(inputs \ embs)
        ref == Mean(w, embs)
    IN IF env = "no_start" THEN Failed("Startup", 0, {}, os)
       ELSE IF env = "junk_raises" /\ junk # {}
            THEN Failed("Detector", 0, inputs, os)
       ELSE IF NoEmbs(embs) THEN Failed("No faces found", nskip, inputs, os)
       ELSE [res |-> [ran |-> TRUE, rc |-> IF env = "late" THEN 1 ELSE 0,
                      captured |-> [skipped |-> nskip,
                                    err |-> IF env = "late" THEN "Late" ELSE "",
                                    saved |-> env # "late"],
                      readOwners |-> {f.owner : f \in inputs}, wrote |-> TRUE,
                      art |-> ref],
             outs |-> WriteOut(os, [root |-> cwd, name |-> OUT_NPY, art |-> ref])]

\* if result.returncode != 0: raise RuntimeError(...)
ScriptFailedNever(res) == FALSE
ScriptFailed(res) == res.rc # 0

---------------------------------------------------------------------------
\* Requests

ListValues(lim) ==
    {[null |-> TRUE, n |-> 0]} \cup {[null |-> FALSE, n |-> k] : k \in 0..lim}

\* The bodies clients send: any body when requests come one at a time; under
\* concurrent load, the bodies that make a request use the scratch area, with
\* ConcRefs references, storage paths and URLs in equal number up to one.
Bodies ==
    IF load = "one"
    THEN {[NoData EXCEPT !.kind = k] : k \in {"not_json", "non_object"}}
         \cup
         {b \in [kind : {"object"}, pid : PatientIds \cup {NoKey, ""},
                 sp : ListValues(MaxRefs), urls : ListValues(MaxRefs)] :
             b.sp.n + b.urls.n <= MaxRefs}
    ELSE {b \in [kind : {"object"}, pid : PatientIds,
                 sp : ListValues(ConcRefs), urls : ListValues(ConcRefs)] :
             /\ ~b.sp.null /\ ~b.urls.null
             /\ b.sp.n + b.urls.n = ConcRefs
             /\ b.sp.n - b.urls.n \in {0 - 1, 0, 1}}

\* sb.storage.from_(bucket).list(prefix): raises, or gives None or items, of
\* which some may carry no name
Listings ==
    {[raises |-> TRUE, null |-> FALSE, named |-> 0, unnamed |-> 0],
     [raises |-> FALSE, null |-> TRUE, named |-> 0, unnamed |-> 0]}
    \cup
    {[raises |-> FALSE, null |-> FALSE, named |-> k, unnamed |-> u] :
        k \in 0..MaxRefs, u \in 0..1}

\* What one download can do: raise before the file is opened ("fail"), raise
\* while the opened file is written ("partial"), or write the whole image,
\* which shows a face or does not.
Downloads ==
    IF load = "one" THEN {"fail", "partial", "face", "noface"}
    ELSE {"fail", "face"}

\* The threads that take requests
Active == IF load = "one" THEN {1} ELSE Workers

Init ==
    /\ variant \in Variants
    /\ load = "one"
    /\ pc = [w \in Workers |-> "idle"]
    /\ data = [w \in Workers |-> NoData]
    /\ patient_id = [w \in Workers |-> NoKey]
    /\ storage_paths = [w \in Workers |-> <<>>]
    /\ image_urls = [w \in Workers |-> <<>>]
    /\ idx = [w \in Workers |-> 1]
    /\ count = [w \in Workers |-> 0]
    /\ temp_root = [w \in Workers |-> 0]
    /\ result = [w \in Workers |-> NoResult]
    /\ resp = [w \in Workers |-> NoResp]
    /\ fx = [w \in Workers |-> NoFx]
    /\ roots = {}
    /\ files = {}
    /\ outs = {}

InitConc ==
    /\ variant \in Variants
    /\ load = "many"
    /\ pc = [w \in Workers |-> "idle"]
    /\ data = [w \in Workers |-> NoData]
    /\ patient_id = [w \in Workers |-> NoKey]
    /\ storage_paths = [w \in Workers |-> <<>>]
    /\ image_urls = [w \in Workers |-> <<>>]
    /\ idx = [w \in Workers |-> 1]
    /\ count = [w \in Workers |-> 0]
    /\ temp_root = [w \in Workers |-> 0]
    /\ result = [w \in Workers |-> NoResult]
    /\ resp = [w \in Workers |-> NoResp]
    /\ fx = [w \in Workers |-> NoFx]
    /\ roots = {}
    /\ files = {}
    /\ outs = {}

\* enroll(), from the request to the explicit lists
Receive(w) ==
    /\ pc[w] = "idle"
    /\ w \in Active
    /\ \E b \in Bodies :
        /\ data' = [data EXCEPT ![w] = b]
        /\ IF b.kind = "not_json"
           THEN /\ resp' = [resp EXCEPT ![w] = JsonError(400, "send JSON", NoCaptured)]
                /\ pc' = [pc EXCEPT ![w] = "responded"]
                /\ UNCHANGED <<patient_id, storage_paths, image_urls>>
           ELSE IF b.kind = "non_object"
           THEN /\ resp' = [resp EXCEPT ![w] = Unhandled(500)]
                /\ pc' = [pc EXCEPT ![w] = "responded"]
                /\ UNCHANGED <<patient_id, storage_paths, image_urls>>
           ELSE IF PidMissing(b.pid)
           THEN /\ resp' = [resp EXCEPT ![w] =
                                JsonError(400, "patient_id is required", NoCaptured)]
                /\ pc' = [pc EXCEPT ![w] = "responded"]
                /\ UNCHANGED <<patient_id, storage_paths, image_urls>>
           ELSE /\ patient_id' = [patient_id EXCEPT ![w] = b.pid]
                /\ storage_paths' = [storage_paths EXCEPT ![w] = OrEmpty(b.sp, "given")]
                /\ image_urls' = [image_urls EXCEPT ![w] = OrEmpty(b.urls, "url")]
                /\ pc' = [pc EXCEPT ![w] = "resolve"]
                /\ UNCHANGED resp
    /\ UNCHANGED <<idx, count, temp_root, result, fx>>
    /\ UNCHANGED <<config, disk>>

\* enroll(): the listing by prefix and the 404
Resolve(w) ==
    /\ pc[w] = "resolve"
    /\ IF NoImages(storage_paths[w], image_urls[w])
       THEN \E l \in Listings :
            /\ fx' = [fx EXCEPT ![w].listed = IF l.raises THEN "raised" ELSE "returned",
                                ![w].prefix = patient_id[w],
                                ![w].found = l.named]
            /\ IF l.raises
               THEN /\ resp' = [resp EXCEPT ![w] = Unhandled(500)]
                    /\ pc' = [pc EXCEPT ![w] = "responded"]
                    /\ UNCHANGED storage_paths
               ELSE LET listed == [i \in 1..l.named |-> <<patient_id[w], i>>]
                    IN /\ storage_paths' = [storage_paths EXCEPT ![w] = listed]
                       /\ IF NoImages(listed, image_urls[w])
                          THEN /\ resp' = [resp EXCEPT ![w] =
                                    JsonError(404, "no images found for this patient",
                                              NoCaptured)]
                               /\ pc' = [pc EXCEPT ![w] = "responded"]
                          ELSE /\ pc' = [pc EXCEPT ![w] = "mkdtemp"]
                               /\ UNCHANGED resp
       ELSE /\ pc' = [pc EXCEPT ![w] = "mkdtemp"]
            /\ UNCHANGED <<fx, resp, storage_paths>>
    /\ UNCHANGED <<data, patient_id, image_urls, idx, count, temp_root, result>>
    /\ UNCHANGED <<config, disk>>

\* temp_root = tempfile.mkdtemp(...), outside the try
Mkdtemp(w) ==
    /\ pc[w] = "mkdtemp"
    /\ \/ /\ resp' = [resp EXCEPT ![w] = Unhandled(500)]
          /\ pc' = [pc EXCEPT ![w] = "responded"]
          /\ UNCHANGED <<temp_root, roots, fx, idx, count>>
       \/ \E d \in MkdTemp(roots) :
          /\ temp_root' = [temp_root EXCEPT ![w] = d]
          /\ roots' = roots \cup {d}
          /\ fx' = [fx EXCEPT ![w].mkdir = TRUE]
          /\ idx' = [idx EXCEPT ![w] = 1]
          /\ count' = [count EXCEPT ![w] = 0]
          /\ pc' = [pc EXCEPT ![w] = "stage"]
          /\ UNCHANGED resp
    /\ UNCHANGED <<data, patient_id, storage_paths, image_urls, result>>
    /\ UNCHANGED <<config, files, outs>>


\* out_path = os.path.join(in_dir, f"{prefix}_{count}.jpg")
OutNameFixed(prefix, n) == <<prefix, 0>>
OutName(prefix, n) == <<prefix, n>>

\* One turn of a loop of _stage_images: try, download, count += 1, except
\* Exception: continue
StageOne(w, prefix) ==
    \E o \in Downloads :
        LET f == [root |-> temp_root[w], dir |-> InDir(variant, patient_id[w]),
                  name |-> OutName(prefix, count[w]), owner |-> w, kind |-> o]
        IN /\ files' = IF o = "fail" THEN files ELSE WriteFile(files, f)
           /\ count' = [count EXCEPT ![w] =
                            IF o \in {"face", "noface"} THEN @ + 1 ELSE @]
           /\ fx' = [fx EXCEPT
                        ![w].attempts = @ + 1,
                        ![w].ok = IF o \in {"face", "noface"} THEN @ + 1 ELSE @,
                        ![w].faces = IF o = "face" THEN @ + 1 ELSE @,
                        ![w].partials = IF o = "partial" THEN @ + 1 ELSE @]
           /\ idx' = [idx EXCEPT ![w] = @ + 1]

\* _stage_images: for p in storage_paths
StageStorage(w) ==
    /\ pc[w] = "stage"
    /\ idx[w] <= Len(storage_paths[w])
    /\ StageOne(w, "sp")
    /\ UNCHANGED <<pc, data, patient_id, storage_paths, image_urls, temp_root,
                   result, resp>>
    /\ UNCHANGED <<config, roots, outs>>

\* _stage_images: for u in urls
StageUrls(w) ==
    /\ pc[w] = "stage"
    /\ idx[w] > Len(storage_paths[w])
    /\ idx[w] <= Len(storage_paths[w]) + Len(image_urls[w])
    /\ StageOne(w, "url")
    /\ UNCHANGED <<pc, data, patient_id, storage_paths, image_urls, temp_root,
                   result, resp>>
    /\ UNCHANGED <<config, roots, outs>>

\* _stage_images has returned
Staged(w) ==
    /\ pc[w] = "stage"
    /\ idx[w] > Len(storage_paths[w]) + Len(image_urls[w])

\* if n == 0
NoneStagedNever(n) == FALSE
NoneStaged(n) == n = 0

\* enroll(): n = _stage_images(...); if n == 0: return 422
CheckStaged(w) ==
    /\ Staged(w)
    /\ IF NoneStaged(count[w])
       THEN /\ resp' = [resp EXCEPT ![w] =
                            JsonError(422, "no usable images staged", NoCaptured)]
            /\ pc' = [pc EXCEPT ![w] = "finally"]
       ELSE /\ pc' = [pc EXCEPT ![w] = "run"]
            /\ UNCHANGED resp
    /\ UNCHANGED <<data, patient_id, storage_paths, image_urls, idx, count,
                   temp_root, result, fx>>
    /\ UNCHANGED <<config, disk>>

\* enroll(): _run_script_in(temp_root), and except Exception: return 500
RunScript(w) ==
    /\ pc[w] = "run"
    /\ \E env \in ScriptEnvs :
        LET run == Script(temp_root[w], files, outs, w, env)
        IN /\ result' = [result EXCEPT ![w] = run.res]
           /\ outs' = run.outs
           /\ IF ScriptFailed(run.res)
              THEN /\ resp' = [resp EXCEPT ![w] =
                                JsonError(500, "Script failed", run.res.captured)]
                   /\ pc' = [pc EXCEPT ![w] = "finally"]
              ELSE /\ pc' = [pc EXCEPT ![w] = "read"]
                   /\ UNCHANGED resp
    /\ UNCHANGED <<data, patient_id, storage_paths, image_urls, idx, count,
                   temp_root, fx>>
    /\ UNCHANGED <<config, roots, files>>

\* enroll(): the output file is read back and sent
ReadBack(w) ==
    /\ pc[w] = "read"
    /\ LET found == {o \in outs : /\ o.root = temp_root[w]
                                  /\ o.name = OutRel(variant, patient_id[w])}
       IN IF found = {}
          THEN resp' = [resp EXCEPT ![w] =
                    JsonError(500, "output .npy not found after script run",
                              NoCaptured)]
          ELSE \E o \in found :
                    resp' = [resp EXCEPT ![w] = Binary(o.art, patient_id[w])]
    /\ pc' = [pc EXCEPT ![w] = "finally"]
    /\ UNCHANGED <<data, patient_id, storage_paths, image_urls, idx, count,
                   temp_root, result, fx>>
    /\ UNCHANGED <<config, disk>>

\* finally: shutil.rmtree(temp_root, ignore_errors=True); the response leaves
FinallyKeep(w) ==
    /\ pc[w] = "finally"
    /\ pc' = [pc EXCEPT ![w] = "responded"]
    /\ UNCHANGED <<data, patient_id, storage_paths, image_urls, idx, count,
                   temp_root, result, resp, fx>>
    /\ UNCHANGED <<config, disk>>

Finally(w) ==
    /\ pc[w] = "finally"
    /\ roots' = roots \ {temp_root[w]}
    /\ files' = RmTree(files, temp_root[w])
    /\ outs' = RmTree(outs, temp_root[w])
    /\ pc' = [pc EXCEPT ![w] = "responded"]
    /\ UNCHANGED <<data, patient_id, storage_paths, image_urls, idx, count,
                   temp_root, result, resp, fx>>
    /\ UNCHANGED config

\* The thread is done with the request and takes the next one.
Return(w) ==
    /\ pc[w] = "responded"
    /\ pc' = [pc EXCEPT ![w] = "idle"]
    /\ data' = [data EXCEPT ![w] = NoData]
    /\ patient_id' = [patient_id EXCEPT ![w] = NoKey]
    /\ storage_paths' = [storage_paths EXCEPT ![w] = <<>>]
    /\ image_urls' = [image_urls EXCEPT ![w] = <<>>]
    /\ idx' = [idx EXCEPT ![w] = 1]
    /\ count' = [count EXCEPT ![w] = 0]
    /\ temp_root' = [temp_root EXCEPT ![w] = 0]
    /\ result' = [result EXCEPT ![w] = NoResult]
    /\ resp' = [resp EXCEPT ![w] = NoResp]
    /\ fx' = [fx EXCEPT ![w] = NoFx]
    /\ UNCHANGED <<config, disk>>

Next ==
    \E w \in Workers :
        \/ Receive(w)
        \/ Resolve(w)
        \/ Mkdtemp(w)
        \/ StageStorage(w)
        \/ StageUrls(w)
        \/ CheckStaged(w)
        \/ RunScript(w)
        \/ ReadBack(w)
        \/ Finally(w)
        \/ Return(w)

\* One request at a time.
Spec == Init /\ [][Next]_vars

\* Every worker thread of the runtime handles requests.
SpecConc == InitConc /\ [][Next]_vars

---------------------------------------------------------------------------
\* Properties

Responded(w) == pc[w] = "responded"
Decided(w) == pc[w] \in {"finally", "responded"}
InProgress(w) == pc[w] \in {"stage", "run", "read", "finally"}
EnvFailures == {"Startup", "Detector", "Late"}
Under(S, d) == {x \in S : x.root = d}

\* C1: once the response of a request that created a scratch directory is
\* returned, that directory and everything under it no longer exist, whatever
\* the outcome of the request.
C1_ScratchRemoved ==
    \A w \in Workers :
        (Responded(w) /\ fx[w].mkdir) =>
            /\ temp_root[w] \notin roots
            /\ Under(files, temp_root[w]) = {}
            /\ Under(outs, temp_root[w]) = {}

\* A request that staged images and ran the script has been answered 200.
C1_Witness ==
    \E w \in Workers :
        /\ Responded(w) /\ fx[w].mkdir /\ fx[w].ok >= 2
        /\ result[w].wrote /\ resp[w].status = 200

\* C2: every request is answered with the artifact or with a JSON {error}
\* body and a status in {400, 404, 422, 500}: no failure escapes the handler.
C2_AllFailuresJson ==
    \A w \in Workers :
        Responded(w) =>
            \/ resp[w].kind = "binary" /\ resp[w].status = 200
            \/ resp[w].kind = "json_error" /\ resp[w].status \in {400, 404, 422, 500}

\* C3: for every patient identifier, a request with a successful download and
\* a staged image showing a face is answered 200 with the artifact its own
\* script run wrote and the file name of the patient (the script process
\* itself meeting no failure of its environment).
C3_StagedFaceGives200 ==
    \A w \in Workers :
        (/\ Responded(w) /\ fx[w].ok >= 1 /\ fx[w].faces >= 1
         /\ result[w].captured.err \notin EnvFailures) =>
            /\ result[w].wrote
            /\ resp[w] = Binary(result[w].art, patient_id[w])
            /\ resp[w].filename = data[w].pid

\* C4: a script run that exits non-zero is answered 500 with a JSON error that
\* carries the captured output, and no artifact, also when the output file
\* had been written.
C4_ScriptFailure500 ==
    \A w \in Workers :
        (Decided(w) /\ result[w].ran /\ result[w].rc # 0) =>
            /\ resp[w] = JsonError(500, "Script failed", result[w].captured)
            /\ resp[w].art = NoArtifact

\* The script failed after it had written its output file.
C4_Witness ==
    \E w \in Workers :
        Responded(w) /\ result[w].rc # 0 /\ result[w].wrote

\* C5: the artifact is written and 200 is answered only if a staged image
\* showed a face; a run over images none of which shows a face writes no
\* output file, exits with failure, and the request ends 500 without artifact.
C5_ArtifactOnlyWithFace ==
    \A w \in Workers :
        /\ (result[w].wrote \/ resp[w].status = 200) =>
                fx[w].faces >= 1 /\ result[w].art.embs # {}
        /\ (Decided(w) /\ result[w].ran /\ fx[w].faces = 0) =>
                /\ ~result[w].wrote
                /\ result[w].rc # 0
                /\ pc[w] = "finally" => Under(outs, temp_root[w]) = {}
                /\ resp[w].status = 500
                /\ resp[w].kind = "json_error"
                /\ resp[w].art = NoArtifact

\* The script ran over staged images none of which shows a face.
C5_Witness ==
    \E w \in Workers :
        /\ Responded(w) /\ result[w].ran /\ fx[w].faces = 0 /\ fx[w].ok >= 1
        /\ result[w].captured.err = "No faces found"

\* C6: a request with a patient_id and image references all of whose
\* downloads fail is answered 422, and the script is not run.
C6_AllDownloadsFail422 ==
    \A w \in Workers :
        (Responded(w) /\ fx[w].attempts >= 1 /\ fx[w].ok = 0) =>
            /\ resp[w] = JsonError(422, "no usable images staged", NoCaptured)
            /\ ~result[w].ran

\* A storage path and a URL were tried and both downloads failed.
C6_Witness ==
    \E w \in Workers :
        /\ Responded(w) /\ fx[w].ok = 0
        /\ Len(storage_paths[w]) >= 1 /\ Len(image_urls[w]) >= 1
        /\ fx[w].attempts = Len(storage_paths[w]) + Len(image_urls[w])

\* C7: a request with a patient_id and no explicit references whose listing
\* returns no files is answered 404, with no scratch directory, no download
\* and no script run; the listing is made, under the prefix of the patient,
\* only when both explicit lists are empty.
C7_NoImages404 ==
    \A w \in Workers :
        /\ (/\ Responded(w) /\ data[w].kind = "object"
            /\ data[w].pid \in PatientIds
            /\ data[w].sp.n = 0 /\ data[w].urls.n = 0
            /\ fx[w].listed = "returned" /\ fx[w].found = 0) =>
                /\ resp[w] = JsonError(404, "no images found for this patient",
                                       NoCaptured)
                /\ ~fx[w].mkdir /\ temp_root[w] = 0
                /\ fx[w].attempts = 0
                /\ ~result[w].ran
        /\ fx[w].listed # "no" =>
                /\ data[w].sp.n = 0 /\ data[w].urls.n = 0
                /\ fx[w].prefix = data[w].pid

\* The listing returned entries, none of them with a name.
C7_Witness ==
    \E w \in Workers :
        /\ Responded(w) /\ fx[w].listed = "returned" /\ fx[w].found = 0
        /\ resp[w].status = 404 /\ ~data[w].sp.null /\ data[w].urls.null

\* C8: a request whose patient_id is missing or empty is answered 400 before
\* any listing, scratch directory, download or script run, whatever lists it
\* carries; and the checks come in the order 400, 404, 422, 500: a 404 is
\* given before anything is staged, a 422 after staging and before the script,
\* a 500 of the handler only after something was staged.
C8_MissingPid400 ==
    \A w \in Workers :
        /\ (pc[w] # "idle" /\ data[w].kind = "object"
            /\ data[w].pid \notin PatientIds) =>
                /\ Responded(w)
                /\ resp[w] = JsonError(400, "patient_id is required", NoCaptured)
                /\ fx[w] = NoFx /\ temp_root[w] = 0 /\ ~result[w].ran
        /\ resp[w].status = 400 => fx[w] = NoFx /\ temp_root[w] = 0
        /\ resp[w].status = 404 =>
                /\ data[w].pid \in PatientIds
                /\ ~fx[w].mkdir /\ fx[w].attempts = 0 /\ ~result[w].ran
        /\ resp[w].status = 422 =>
                /\ data[w].pid \in PatientIds
                /\ Len(storage_paths[w]) + Len(image_urls[w]) >= 1
                /\ fx[w].mkdir /\ fx[w].ok = 0 /\ ~result[w].ran
        /\ (resp[w].status = 500 /\ resp[w].kind = "json_error") =>
                /\ data[w].pid \in PatientIds
                /\ fx[w].ok >= 1 /\ result[w].ran

\* An empty patient_id came with storage paths and URLs.
C8_Witness ==
    \E w \in Workers :
        /\ Responded(w) /\ data[w].pid = ""
        /\ data[w].sp.n >= 1 /\ data[w].urls.n >= 1

\* C9: concurrent requests, also of one patient, each work in a scratch
\* directory of their own: a script run reads only images its own request
\* staged, a returned artifact is the one the request's own run wrote from its
\* own images, and while a request is in progress its directory, its staged
\* images and its output file exist.
C9_RequestsIsolated ==
    \A w \in Workers :
        /\ result[w].ran => result[w].readOwners \subseteq {w}
        /\ resp[w].kind = "binary" =>
                /\ resp[w].art = result[w].art
                /\ resp[w].art.writer = w
                /\ \A e \in resp[w].art.embs : e[1] = w
        /\ InProgress(w) =>
                /\ temp_root[w] \in roots
                /\ \A v \in Workers \ {w} :
                        InProgress(v) => temp_root[v] # temp_root[w]
                /\ Cardinality({f \in Under(files, temp_root[w]) :
                                    f.owner = w /\ f.kind \in {"face", "noface"}})
                        = count[w]
                /\ result[w].wrote =>
                        \E o \in Under(outs, temp_root[w]) : o.art = result[w].art

\* A request has been answered with its artifact and has removed its scratch
\* directory while another request of the same patient, with an image staged,
\* is still in progress.
C9_Witness ==
    \E w \in Workers : \E v \in Workers \ {w} :
        /\ Responded(w) /\ resp[w].kind = "binary"
        /\ pc[v] \in {"run", "read"} /\ count[v] >= 1
        /\ patient_id[v] = patient_id[w]

\* C10: when _stage_images returns, every storage path and every URL has been
\* attempted, the count is the number of downloads that succeeded, and the
\* number of files staged equals the count.
C10_FilesEqualCount ==
    \A w \in Workers :
        Staged(w) =>
            /\ fx[w].attempts = Len(storage_paths[w]) + Len(image_urls[w])
            /\ count[w] = fx[w].ok
            /\ Cardinality(Under(files, temp_root[w])) = count[w]

============================================================================
